---------------------------- MODULE Spec2Model ----------------------------
(***************************************************************************)
(* Identity & role synchronisation core of the customer-service backend:   *)
(* the invited_users allowlist (invite / accept / status / role), the      *)
(* mirror of the role into the Cognito groups, the per-request             *)
(* authorisation dependency and the JWKS key cache.                        *)
(*                                                                         *)
(* A psycopg2 "with conn:" block commits on normal exit and rolls back     *)
(* when an exception leaves it; calls to Cognito are not rolled back.      *)
(* An exception that is not an HTTPException and reaches the framework is  *)
(* answered with HTTP 500.                                                 *)
(***************************************************************************)
EXTENDS Integers, Sequences, FiniteSets, TLC

(* ------------------------------ bounds -------------------------------- *)
MaxNow == 3
MaxTokens == 2
MaxAudit == 1
\* the configured life of an invitation (secret INVITE_EXP_DAYS, 7 days by
\* default), in ticks of the model's clock
INVITE_EXP_DAYS == 1

(* --------------------------- program constants ------------------------ *)
ALLOWED_GROUPS == {"Agent", "Supervisor"}
ALLOWED_DOMAIN == "musclepoints.com"

(* ------------------------------ value sets ---------------------------- *)
\* the e-mail addresses requests carry; lower() and the domain test are tables
EmailInputs == {"u@musclepoints.com", "U@musclepoints.com", "u@other.com"}
Emails == {"u@musclepoints.com"}
Admins == {"s1@musclepoints.com", "s2@musclepoints.com"}
RoleInputs == {"Agent", "Supervisor", "Admin"}
StatusInputs == {"pending", "active", "revoked", "deleted"}

lower(e) ==
    IF e = "U@musclepoints.com" THEN "u@musclepoints.com" ELSE e

DomainOf(e) ==
    IF e \in {"u@musclepoints.com", "U@musclepoints.com"} \cup Admins
    THEN "musclepoints.com"
    ELSE IF e = "u@other.com" THEN "other.com" ELSE ""

\* NULL of the token column (also the blank token of a request) and of
\* the token_expires_at column
NoToken == 0
NoExpiry == -1

\* result of fetchone() when no row matches
NoRow == [status |-> "absent"]

VARIABLES
    store,      \* table invited_users: email -> row or NoRow
    now,        \* the UTC clock
    issued,     \* number of invite tokens generated so far
    cognito,    \* the user pool: email -> identity
    audit,      \* table auth_login_events, rows of provider_sub 'admin:roles'
    jwks,       \* lru_cache of _fetch_jwks: <<>> when empty, else <<key set>>
    published,  \* key set served at JWKS_URL
    pc,         \* position of each concurrent request
    req,        \* locals of each concurrent request
    last        \* the last completed call and its response

vars == <<store, now, issued, cognito, audit, jwks, published, pc, req, last>>

HasRow(s, e) == e \in DOMAIN s /\ s[e].status # "absent"

(* ----------------------------- invite_api ----------------------------- *)
\* secrets.token_urlsafe(32): a value that was never generated before
token_urlsafe(n) == n + 1

Http(code, detail) == [code |-> code, detail |-> detail]

\* mutant: a renewed invitation goes back to pending
invite_user_resets_status(s, email, role, me, tok, t, sendOK) ==
    IF "Supervisor" \notin me.groups
    THEN [store |-> s, resp |-> Http(403, "Supervisor role required")]
    ELSE IF role \notin {"Agent", "Supervisor"}
    THEN [store |-> s, resp |-> Http(400, "Rol invalido")]
    ELSE IF DomainOf(lower(email)) # "musclepoints.com"
    THEN [store |-> s, resp |-> Http(400, "El email debe ser del dominio")]
    ELSE [store |-> [s EXCEPT ![lower(email)] =
                        [role |-> role, status |-> "pending", invited_by |-> me.email,
                         token |-> tok, token_expires_at |-> t + INVITE_EXP_DAYS]],
          resp |-> [code |-> 200, detail |-> "ok", status |-> "pending",
                    token |-> tok, email_sent |-> sendOK]]

\* mutant: an invitation whose e-mail cannot be sent is rolled back
invite_user_needs_email(s, email, role, me, tok, t, sendOK) ==
    IF "Supervisor" \notin me.groups
    THEN [store |-> s, resp |-> Http(403, "Supervisor role required")]
    ELSE IF role \notin {"Agent", "Supervisor"}
    THEN [store |-> s, resp |-> Http(400, "Rol invalido")]
    ELSE IF DomainOf(lower(email)) # "musclepoints.com"
    THEN [store |-> s, resp |-> Http(400, "El email debe ser del dominio")]
    ELSE IF ~sendOK
    THEN [store |-> s, resp |-> Http(500, "Error al crear invitacion")]
    ELSE LET st == IF HasRow(s, lower(email)) /\ s[lower(email)].status # "revoked"
                   THEN s[lower(email)].status ELSE "pending"
         IN  [store |-> [s EXCEPT ![lower(email)] =
                            [role |-> role, status |-> st, invited_by |-> me.email,
                             token |-> tok, token_expires_at |-> t + INVITE_EXP_DAYS]],
              resp |-> [code |-> 200, detail |-> "ok", status |-> st,
                        token |-> tok, email_sent |-> sendOK]]

\* mutant: an invitation renews the token of a revoked row and keeps its status
invite_user_keeps_revoked(s, email, role, me, tok, t, sendOK) ==
    IF "Supervisor" \notin me.groups
    THEN [store |-> s, resp |-> Http(403, "Supervisor role required")]
    ELSE IF role \notin {"Agent", "Supervisor"}
    THEN [store |-> s, resp |-> Http(400, "Rol invalido")]
    ELSE IF DomainOf(lower(email)) # "musclepoints.com"
    THEN [store |-> s, resp |-> Http(400, "El email debe ser del dominio")]
    ELSE LET st == IF HasRow(s, lower(email)) THEN s[lower(email)].status ELSE "pending"
         IN  [store |-> [s EXCEPT ![lower(email)] =
                            [role |-> role, status |-> st, invited_by |-> me.email,
                             token |-> tok, token_expires_at |-> t + INVITE_EXP_DAYS]],
              resp |-> [code |-> 200, detail |-> "ok", status |-> st,
                        token |-> tok, email_sent |-> sendOK]]

\* body of invite_user after the dependency has produced the principal me
invite_user(s, email, role, me, tok, t, sendOK) ==
    LET email_lower == lower(email)
        exp == t + INVITE_EXP_DAYS
    IN  IF "Supervisor" \notin me.groups
        THEN [store |-> s, resp |-> Http(403, "Supervisor role required")]
        ELSE IF role \notin {"Agent", "Supervisor"}
        THEN [store |-> s, resp |-> Http(400, "Rol invalido")]
        ELSE IF DomainOf(email_lower) # "musclepoints.com"
        THEN [store |-> s, resp |-> Http(400, "El email debe ser del dominio")]
        ELSE LET existing == IF email_lower \in DOMAIN s THEN s[email_lower] ELSE NoRow
                 final_status ==
                     IF existing.status \in {"absent", "revoked"}
                     THEN "pending" ELSE existing.status
                 row == [role |-> role, status |-> final_status,
                         invited_by |-> me.email, token |-> tok,
                         token_expires_at |-> exp]
             IN  [store |-> [s EXCEPT ![email_lower] = row],
                  resp |-> [code |-> 200, detail |-> "ok", status |-> final_status,
                            token |-> tok, email_sent |-> sendOK]]

\* the checks and the SELECT of invite_user: the statement it will execute
\* ("insert", "rehabilitate" a revoked row, "renew" the token of another)
invite_select(s, email, role, me) ==
    LET email_lower == lower(email)
        existing == IF email_lower \in DOMAIN s THEN s[email_lower] ELSE NoRow
        out(code, detail, statement, final_status) ==
            [code |-> code, detail |-> detail, statement |-> statement,
             final_status |-> final_status]
    IN  IF "Supervisor" \notin me.groups
        THEN out(403, "Supervisor role required", "none", "none")
        ELSE IF role \notin {"Agent", "Supervisor"}
        THEN out(400, "Rol invalido", "none", "none")
        ELSE IF DomainOf(email_lower) # "musclepoints.com"
        THEN out(400, "El email debe ser del dominio", "none", "none")
        ELSE IF existing.status = "absent" THEN out(0, "ok", "insert", "pending")
        ELSE IF existing.status = "revoked" THEN out(0, "ok", "rehabilitate", "pending")
        ELSE out(0, "ok", "renew", existing.status)

\* the statement chosen by the SELECT, executed on the rows committed by
\* then, and the commit; the rows are keyed by e-mail, so the INSERT of an
\* e-mail that has a row by now raises and the transaction is rolled back
invite_write(s, rd, email, role, me, tok, t, sendOK) ==
    LET email_lower == lower(email)
        exp == t + INVITE_EXP_DAYS
        ok(s1) == [store |-> s1,
                   resp |-> [code |-> 200, detail |-> "ok", status |-> rd.final_status,
                             token |-> tok, email_sent |-> sendOK]]
    IN  IF rd.statement = "insert"
        THEN IF HasRow(s, email_lower)
             THEN [store |-> s, resp |-> Http(500, "Error al crear invitacion")]
             ELSE ok([s EXCEPT ![email_lower] =
                         [role |-> role, status |-> "pending", invited_by |-> me.email,
                          token |-> tok, token_expires_at |-> exp]])
        ELSE IF ~HasRow(s, email_lower) THEN ok(s)
        ELSE IF rd.statement = "rehabilitate"
        THEN ok([s EXCEPT ![email_lower].status = "pending",
                          ![email_lower].role = role,
                          ![email_lower].token = tok,
                          ![email_lower].token_expires_at = exp,
                          ![email_lower].invited_by = me.email])
        ELSE ok([s EXCEPT ![email_lower].role = role,
                          ![email_lower].token = tok,
                          ![email_lower].token_expires_at = exp,
                          ![email_lower].invited_by = me.email])

(* ----------------------------- accept_api ----------------------------- *)
\* mutant: the expiry of the token is not tested
accept_read_no_expiry(s, token, t) ==
    IF token = NoToken
    THEN [code |-> 400, detail |-> "Token requerido"]
    ELSE LET rows == {e \in DOMAIN s : HasRow(s, e) /\ s[e].token = token}
         IN  IF rows = {}
             THEN [code |-> 400, detail |-> "Token invalido o expirado"]
             ELSE LET email == CHOOSE e \in rows : TRUE
                  IN  [code |-> 0, detail |-> "", email |-> email,
                       current_status |-> s[email].status]

\* SELECT ... WHERE token = %s, the expiry test and the choice of the UPDATE
accept_read(s, token, t) ==
    IF token = NoToken
    THEN [code |-> 400, detail |-> "Token requerido"]
    ELSE LET rows == {e \in DOMAIN s : HasRow(s, e) /\ s[e].token = token}
         IN  IF rows = {}
             THEN [code |-> 400, detail |-> "Token invalido o expirado"]
             ELSE LET email == CHOOSE e \in rows : TRUE
                      row == s[email]
                  IN  IF row.token_expires_at # NoExpiry /\ row.token_expires_at < t
                      THEN [code |-> 400, detail |-> "Token expirado"]
                      ELSE [code |-> 0, detail |-> "", email |-> email,
                            current_status |-> row.status]

\* mutant: the token of a row that is already active is left in place
accept_update_keeps_token(s, rd, token) ==
    IF rd.current_status = "active"
    THEN [store |-> s, resp |-> [code |-> 200, detail |-> "ok", email |-> rd.email]]
    ELSE IF HasRow(s, rd.email) /\ s[rd.email].token = token
         THEN [store |-> [s EXCEPT ![rd.email].status = "active",
                                   ![rd.email].token = NoToken,
                                   ![rd.email].token_expires_at = NoExpiry],
               resp |-> [code |-> 200, detail |-> "ok", email |-> rd.email]]
         ELSE [store |-> s,
               resp |-> Http(400, "Token invalido o ya consumido")]

\* mutant: the activating UPDATE is keyed by the e-mail alone
accept_update_by_email(s, rd, token) ==
    IF HasRow(s, rd.email)
    THEN [store |-> [s EXCEPT ![rd.email].status =
                                  IF rd.current_status = "active" THEN @ ELSE "active",
                              ![rd.email].token = NoToken,
                              ![rd.email].token_expires_at = NoExpiry],
          resp |-> [code |-> 200, detail |-> "ok", email |-> rd.email]]
    ELSE [store |-> s, resp |-> Http(400, "Token invalido o ya consumido")]

\* mutant: the accepted token is cleared and its expiry is kept
accept_update_keeps_expiry(s, rd, token) ==
    IF HasRow(s, rd.email) /\ s[rd.email].token = token
    THEN [store |-> [s EXCEPT ![rd.email].status = "active",
                              ![rd.email].token = NoToken],
          resp |-> [code |-> 200, detail |-> "ok", email |-> rd.email]]
    ELSE [store |-> s, resp |-> Http(400, "Token invalido o ya consumido")]

\* the UPDATE chosen by accept_read, its rowcount test and the commit
accept_update(s, rd, token) ==
    IF rd.current_status = "active"
    THEN [store |-> IF HasRow(s, rd.email)
                    THEN [s EXCEPT ![rd.email].token = NoToken,
                                   ![rd.email].token_expires_at = NoExpiry]
                    ELSE s,
          resp |-> [code |-> 200, detail |-> "ok", email |-> rd.email]]
    ELSE IF HasRow(s, rd.email) /\ s[rd.email].token = token
         THEN [store |-> [s EXCEPT ![rd.email].status = "active",
                                   ![rd.email].token = NoToken,
                                   ![rd.email].token_expires_at = NoExpiry],
               resp |-> [code |-> 200, detail |-> "ok", email |-> rd.email]]
         ELSE [store |-> s,
               resp |-> Http(400, "Token invalido o ya consumido")]

accept_invite(s, token, t) ==
    LET rd == accept_read(s, token, t)
    IN  IF rd.code # 0 THEN [store |-> s, resp |-> rd]
        ELSE accept_update(s, rd, token)

(* ---------------------------- cognito_admin --------------------------- *)
CognitoGroups == {"Agent", "Supervisor"}
NoIdentity == [exists |-> FALSE, groups |-> {}, enabled |-> FALSE]
Identities == {NoIdentity} \cup
    {[exists |-> TRUE, groups |-> g, enabled |-> en] : g \in SUBSET CognitoGroups,
                                                      en \in BOOLEAN}

\* the provider call that fails when it is reached ("none": the provider is up)
RoleFaults == {"none", "list_users", "list_groups_before", "add_user_to_group",
               "remove_user_from_group", "list_groups_after", "global_sign_out"}
StatusFaults == {"none", "list_users", "disable_user", "enable_user", "global_sign_out"}

\* the faults of a set that a call about an e-mail can meet: without an
\* identity list_users is the only provider call made
FaultsFor(cg, email, faults) ==
    IF lower(email) \in DOMAIN cg /\ cg[lower(email)].exists
    THEN faults ELSE faults \cap {"none", "list_users"}

\* list_users with Filter email = ...; the Username of the hit, or "None"
find_cognito_username_by_email(cg, email, fault) ==
    IF fault = "list_users"
    THEN [raised |-> "ClientError", username |-> "None"]
    ELSE [raised |-> "none",
          username |-> IF lower(email) \in DOMAIN cg /\ cg[lower(email)].exists
                       THEN lower(email) ELSE "None"]

\* mutant: the membership is replaced by the target group alone
set_cognito_role_replaces_groups(cg, username, target, fault) ==
    [cognito |-> [cg EXCEPT ![username].groups = {target}], raised |-> "none",
     failed |-> "none", before |-> cg[username].groups, after |-> {target},
     changed |-> cg[username].groups \cap CognitoGroups # {target}]

\* mutant: the groups are left as they are and no change is reported
set_cognito_role_keeps_groups(cg, username, target, fault) ==
    [cognito |-> cg, raised |-> "none", failed |-> "none",
     before |-> cg[username].groups, after |-> cg[username].groups, changed |-> FALSE]

\* add the target group if missing, remove the other one if present
set_cognito_role(cg, username, target, fault) ==
    LET before == cg[username].groups
        desired == target
        undesired == IF target = "Agent" THEN "Supervisor" ELSE "Agent"
        out(c, raised, failed, changed) ==
            [cognito |-> c, raised |-> raised, failed |-> failed, before |-> before,
             after |-> c[username].groups, changed |-> changed]
    IN  IF fault = "list_groups_before"
        THEN out(cg, "ClientError", fault, FALSE)
        ELSE IF desired \notin before /\ fault = "add_user_to_group"
        THEN out(cg, "RuntimeError", fault, FALSE)
        ELSE LET cg1 == IF desired \notin before
                        THEN [cg EXCEPT ![username].groups = @ \cup {desired}]
                        ELSE cg
                 ch1 == desired \notin before
             IN  IF undesired \in before /\ fault = "remove_user_from_group"
                 THEN out(cg1, "RuntimeError", fault, ch1)
                 ELSE LET cg2 == IF undesired \in before
                                 THEN [cg1 EXCEPT ![username].groups = @ \ {undesired}]
                                 ELSE cg1
                          ch2 == ch1 \/ undesired \in before
                      IN  IF fault = "list_groups_after"
                          THEN out(cg2, "ClientError", fault, ch2)
                          ELSE out(cg2, "none", "none", ch2)

(* -------------------------- role_sync_service ------------------------- *)
\* INSERT INTO auth_login_events ... on the connection of the caller
\* mutant: the audit row is not inserted
audit_nothing(au, admin_email, target_email, action, db_from, db_to, username, after_groups, status_msg, tokens_revoked) ==
    au

audit_admin_change(au, admin_email, target_email, action, db_from, db_to, username, after_groups, status_msg, tokens_revoked) ==
    Append(au, [admin |-> admin_email, email |-> lower(target_email),
                action |-> action, db_from |-> db_from, db_to |-> db_to,
                username |-> username, after |-> after_groups,
                status |-> status_msg, tokens_revoked |-> tokens_revoked])

\* mutant: every statement is committed as it is executed
with_conn_autocommit(before, written, raised) ==
    written

\* "with conn:": what the block wrote is kept when it is left normally and
\* discarded when an exception leaves it
with_conn(before, written, raised) ==
    IF raised = "none" THEN written ELSE before

\* mutant: the sessions are reported revoked whenever the groups changed
SyncResult_revoked_on_change(raised, failed, db_changed, cognito_changed, tokens_revoked) ==
    [raised |-> raised, failed |-> failed, db_changed |-> db_changed,
     cognito_changed |-> cognito_changed, tokens_revoked |-> cognito_changed]

SyncResult(raised, failed, db_changed, cognito_changed, tokens_revoked) ==
    [raised |-> raised, failed |-> failed, db_changed |-> db_changed,
     cognito_changed |-> cognito_changed, tokens_revoked |-> tokens_revoked]

promote_or_demote(s, cg, au, admin_email, target_email0, target_role, force_logout, fault) ==
    LET target_email == lower(target_email0)
        db == [store |-> s, audit |-> au]
        done(written, c, res) ==
            LET kept == with_conn(db, written, res.raised)
            IN  [store |-> kept.store, audit |-> kept.audit, cognito |-> c, result |-> res]
    IN  IF ~HasRow(s, target_email)
        THEN done([store |-> s,
                   audit |-> audit_admin_change(au, admin_email, target_email,
                                "change:db-miss", "None", target_role, "None", {},
                                "user_not_in_DB", FALSE)],
                  cg, SyncResult("ValueError", "none", FALSE, FALSE, FALSE))
        ELSE
        LET current_db_role == s[target_email].role
            db_changed == current_db_role # target_role
            s1 == IF db_changed THEN [s EXCEPT ![target_email].role = target_role] ELSE s
            found == find_cognito_username_by_email(cg, target_email, fault)
        IN  IF found.raised # "none"
            THEN done([store |-> s1, audit |-> au], cg,
                      SyncResult(found.raised, fault, FALSE, FALSE, FALSE))
            ELSE IF found.username = "None"
            THEN done([store |-> s1,
                       audit |-> audit_admin_change(au, admin_email, target_email,
                                    "change:cognito-miss", current_db_role, target_role,
                                    "None", {},
                                    IF db_changed THEN "cognito_user_not_found; DB updated"
                                    ELSE "noop", FALSE)],
                      cg, SyncResult("none", "none", db_changed, FALSE, FALSE))
            ELSE
            LET sync == set_cognito_role(cg, found.username, target_role, fault)
            IN  IF sync.raised # "none"
                THEN done([store |-> s1, audit |-> au], sync.cognito,
                          SyncResult(sync.raised, sync.failed, FALSE, FALSE, FALSE))
                ELSE
                LET attempted == force_logout /\ sync.changed
                    tokens_revoked == attempted /\ fault # "global_sign_out"
                    status == IF db_changed \/ sync.changed THEN "ok" ELSE "noop"
                IN  done([store |-> s1,
                          audit |-> audit_admin_change(au, admin_email, target_email,
                                       "change", current_db_role, target_role,
                                       found.username, sync.after, status, tokens_revoked)],
                         sync.cognito,
                         SyncResult("none",
                                    IF attempted /\ ~tokens_revoked THEN fault ELSE "none",
                                    db_changed, sync.changed, tokens_revoked))

\* the calls to the external identity provider
ProviderCalls == {"list_users", "list_groups", "add_user_to_group",
                  "remove_user_from_group", "global_sign_out", "disable_user",
                  "enable_user"}

\* the statements and provider calls of promote_or_demote in the order it
\* makes them; the call named by fault raises and is the last one made
\* ("UPDATE": the store write fails)
promote_or_demote_calls(s, cg, target_email0, target_role, force_logout, fault) ==
    LET target_email == lower(target_email0)
    IN  IF ~HasRow(s, target_email) THEN <<"SELECT", "INSERT">>
        ELSE
        LET db_changed == s[target_email].role # target_role
            write == IF db_changed THEN <<"SELECT", "UPDATE">> ELSE <<"SELECT">>
            found == find_cognito_username_by_email(cg, target_email, fault)
        IN  IF db_changed /\ fault = "UPDATE" THEN write
            ELSE IF found.raised # "none" THEN write \o <<"list_users">>
            ELSE IF found.username = "None"
            THEN write \o <<"list_users", "INSERT", "COMMIT">>
            ELSE
            LET before == cg[found.username].groups
                undesired == IF target_role = "Agent" THEN "Supervisor" ELSE "Agent"
                add == IF target_role \notin before THEN <<"add_user_to_group">> ELSE <<>>
                remove == IF undesired \in before
                          THEN <<"remove_user_from_group">> ELSE <<>>
                changed == target_role \notin before \/ undesired \in before
                mirror == write \o <<"list_users", "list_groups">>
            IN  IF fault = "list_groups_before" THEN mirror
                ELSE IF fault = "add_user_to_group" /\ add # <<>> THEN mirror \o add
                ELSE IF fault = "remove_user_from_group" /\ remove # <<>>
                THEN mirror \o add \o remove
                ELSE IF fault = "list_groups_after"
                THEN mirror \o add \o remove \o <<"list_groups">>
                ELSE mirror \o add \o remove \o <<"list_groups">>
                     \o (IF force_logout /\ changed THEN <<"global_sign_out">> ELSE <<>>)
                     \o <<"INSERT", "COMMIT">>

\* mutant: the repair resets the stored role to Agent before it mirrors it
repair_resets_role(s, cg, au, admin_email, target_email0, force_logout, fault) ==
    promote_or_demote(s, cg, au, admin_email, target_email0, "Agent", force_logout, fault)

repair_to_db_role(s, cg, au, admin_email, target_email0, force_logout, fault) ==
    LET target_email == lower(target_email0)
        db == [store |-> s, audit |-> au]
        done(written, c, res) ==
            LET kept == with_conn(db, written, res.raised)
            IN  [store |-> kept.store, audit |-> kept.audit, cognito |-> c, result |-> res]
    IN  IF ~HasRow(s, target_email)
        THEN done([store |-> s,
                   audit |-> audit_admin_change(au, admin_email, target_email,
                                "repair:db-miss", "None", "None", "None", {},
                                "user_not_in_DB", FALSE)],
                  cg, SyncResult("ValueError", "none", FALSE, FALSE, FALSE))
        ELSE
        LET db_role == s[target_email].role
            found == find_cognito_username_by_email(cg, target_email, fault)
        IN  IF found.raised # "none"
            THEN done(db, cg, SyncResult(found.raised, fault, FALSE, FALSE, FALSE))
            ELSE IF found.username = "None"
            THEN done([store |-> s,
                       audit |-> audit_admin_change(au, admin_email, target_email,
                                    "repair:cognito-miss", db_role, db_role, "None", {},
                                    "cognito_user_not_found", FALSE)],
                      cg, SyncResult("none", "none", FALSE, FALSE, FALSE))
            ELSE
            LET sync == set_cognito_role(cg, found.username, db_role, fault)
            IN  IF sync.raised # "none"
                THEN done(db, sync.cognito,
                          SyncResult(sync.raised, sync.failed, FALSE, FALSE, FALSE))
                ELSE
                LET attempted == force_logout /\ sync.changed
                    tokens_revoked == attempted /\ fault # "global_sign_out"
                    status == IF sync.changed THEN "ok" ELSE "noop"
                IN  done([store |-> s,
                          audit |-> audit_admin_change(au, admin_email, target_email,
                                       "repair", db_role, db_role, found.username,
                                       sync.after, status, tokens_revoked)],
                         sync.cognito,
                         SyncResult("none",
                                    IF attempted /\ ~tokens_revoked THEN fault ELSE "none",
                                    FALSE, sync.changed, tokens_revoked))

(* --------------------------- admin_roles_api -------------------------- *)
\* body of inspect: the allowlist row, the identity and its groups, side by side
inspect(s, cg, email, fault) ==
    LET e == lower(email)
        db == IF HasRow(s, e) THEN [role |-> s[e].role, status |-> s[e].status]
              ELSE [role |-> "None", status |-> "None"]
        found == find_cognito_username_by_email(cg, e, fault)
        username == found.username
        groups == IF username # "None" THEN cg[username].groups ELSE {}
    IN  IF found.raised # "none" \/ (username # "None" /\ fault = "list_groups_before")
        THEN [raised |-> "ClientError", email |-> e, db |-> db, username |-> "None",
              groups |-> {}, in_sync |-> FALSE]
        ELSE [raised |-> "none", email |-> e, db |-> db, username |-> username,
              groups |-> groups,
              in_sync |-> HasRow(s, e) /\ (db.role \in groups \/ username = "None")]

(* ------------------------------ users_api ----------------------------- *)
StatusResp(code, detail, cognito_changed, tokens_revoked) ==
    [code |-> code, detail |-> detail, cognito_changed |-> cognito_changed,
     tokens_revoked |-> tokens_revoked]

\* mutant: every status change clears the invitation token
update_user_status_clears_token(s, cg, email, status, me, fault) ==
    IF "Supervisor" \notin me.groups
    THEN [store |-> s, cognito |-> cg,
          resp |-> StatusResp(403, "Supervisor role required", FALSE, FALSE)]
    ELSE IF status \notin {"pending", "active", "revoked"}
    THEN [store |-> s, cognito |-> cg,
          resp |-> StatusResp(400, "Estado invalido", FALSE, FALSE)]
    ELSE IF ~HasRow(s, lower(email))
    THEN [store |-> s, cognito |-> cg,
          resp |-> StatusResp(404, "Usuario no encontrado", FALSE, FALSE)]
    ELSE [store |-> [s EXCEPT ![lower(email)].status = status,
                              ![lower(email)].token = NoToken,
                              ![lower(email)].token_expires_at = NoExpiry],
          cognito |-> cg,
          resp |-> StatusResp(200, "Estado actualizado", FALSE, FALSE)]

\* body of update_user_status after the dependency has produced the principal me
update_user_status(s, cg, email, status, me, fault) ==
    LET email_lower == lower(email)
    IN  IF "Supervisor" \notin me.groups
        THEN [store |-> s, cognito |-> cg,
              resp |-> StatusResp(403, "Supervisor role required", FALSE, FALSE)]
        ELSE IF status \notin {"pending", "active", "revoked"}
        THEN [store |-> s, cognito |-> cg,
              resp |-> StatusResp(400, "Estado invalido", FALSE, FALSE)]
        ELSE IF ~HasRow(s, email_lower)
        THEN [store |-> s, cognito |-> cg,
              resp |-> StatusResp(404, "Usuario no encontrado", FALSE, FALSE)]
        ELSE
        LET found == find_cognito_username_by_email(cg, email_lower, fault)
            username == found.username
        IN  IF found.raised # "none"
            THEN [store |-> with_conn(s, s, found.raised), cognito |-> cg,
                  resp |-> StatusResp(500, "Error al actualizar estado", FALSE, FALSE)]
            ELSE IF status = "revoked"
            THEN LET s1 == [s EXCEPT ![email_lower].status = status,
                                     ![email_lower].token = NoToken,
                                     ![email_lower].token_expires_at = NoExpiry]
                     disabled == username # "None" /\ fault # "disable_user"
                     tokens_revoked == disabled /\ fault # "global_sign_out"
                 IN  [store |-> with_conn(s, s1, "none"),
                      cognito |-> IF disabled
                                  THEN [cg EXCEPT ![username].enabled = FALSE] ELSE cg,
                      resp |-> StatusResp(200, "Estado actualizado", disabled, tokens_revoked)]
            ELSE LET s1 == [s EXCEPT ![email_lower].status = status]
                     enabled == username # "None" /\ fault # "enable_user"
                 IN  [store |-> with_conn(s, s1, "none"),
                      cognito |-> IF enabled
                                  THEN [cg EXCEPT ![username].enabled = TRUE] ELSE cg,
                      resp |-> StatusResp(200, "Estado actualizado", enabled, FALSE)]

\* the statements and provider calls of update_user_status in the order it
\* makes them; the call named by fault raises ("UPDATE": the store write fails)
update_user_status_calls(s, cg, email, status, me, fault) ==
    LET email_lower == lower(email)
        found == find_cognito_username_by_email(cg, email_lower, fault)
    IN  IF "Supervisor" \notin me.groups \/ status \notin {"pending", "active", "revoked"}
        THEN <<>>
        ELSE IF ~HasRow(s, email_lower) THEN <<"SELECT">>
        ELSE IF found.raised # "none" THEN <<"SELECT", "list_users">>
        ELSE IF fault = "UPDATE" THEN <<"SELECT", "list_users", "UPDATE">>
        ELSE <<"SELECT", "list_users", "UPDATE">>
             \o (IF found.username = "None" THEN <<>>
                 ELSE IF status # "revoked" THEN <<"enable_user">>
                 ELSE IF fault = "disable_user" THEN <<"disable_user">>
                 ELSE <<"disable_user", "global_sign_out">>)
             \o <<"COMMIT">>

(* ------------------------------- cognito ------------------------------ *)
Kids == {"k1", "k2"}
CLIENT_ID == "client"
ISSUER == "issuer"

\* _fetch_jwks under lru_cache(maxsize=1): a cached value is returned without
\* a request; a request that fails raises 502 and leaves the cache empty
fetch_jwks(cache, remote, netOK) ==
    IF cache # <<>>
    THEN [cache |-> cache, code |-> 0, keys |-> cache[1], fetched |-> 0]
    ELSE IF netOK
    THEN [cache |-> <<remote>>, code |-> 0, keys |-> remote, fetched |-> 1]
    ELSE [cache |-> <<>>, code |-> 502, keys |-> {}, fetched |-> 1]

\* mutant: the cache is kept
cache_kept(cache) == cache

\* _fetch_jwks.cache_clear()
cache_clear(cache) == <<>>

\* _get_key: net1 and net2 tell whether the first and the second request to
\* JWKS_URL made by this call, if any, succeed
get_key(cache, remote, kid, net1, net2) ==
    LET f1 == fetch_jwks(cache, remote, net1)
        out(c, code, detail, fetched, cleared) ==
            [cache |-> c, code |-> code, detail |-> detail, fetched |-> fetched,
             cleared |-> cleared]
    IN  IF f1.code # 0
        THEN out(f1.cache, 502, "Error fetching JWKS from Cognito", f1.fetched, 0)
        ELSE IF kid \in f1.keys
        THEN out(f1.cache, 0, "", f1.fetched, 0)
        ELSE LET f2 == fetch_jwks(cache_clear(f1.cache), remote,
                                  IF f1.fetched = 0 THEN net1 ELSE net2)
             IN  IF f2.code # 0
                 THEN out(f2.cache, 502, "Error fetching JWKS from Cognito",
                          f1.fetched + f2.fetched, 1)
                 ELSE IF kid \in f2.keys
                 THEN out(f2.cache, 0, "", f1.fetched + f2.fetched, 1)
                 ELSE out(f2.cache, 401, "JWKS key not found",
                          f1.fetched + f2.fetched, 1)

\* the bearer tokens requests present
GroupClaims == {[kind |-> "absent", val |-> <<>>],
                [kind |-> "str", val |-> <<"Supervisor">>],
                [kind |-> "list", val |-> <<"Agent">>],
                [kind |-> "list", val |-> <<"Supervisor">>],
                [kind |-> "list", val |-> <<"Supervisor", "Agent">>],
                [kind |-> "list", val |-> <<"Staff">>]}
EmailClaims == EmailInputs \cup {""}
GoodToken == [form |-> "jwt", kid |-> "k1", sig |-> TRUE, exp |-> MaxNow,
              aud |-> CLIENT_ID, iss |-> ISSUER, email |-> "u@musclepoints.com",
              groups |-> [kind |-> "list", val |-> <<"Agent">>]]
\* tokens that differ from a good one in one respect, or in e-mail and groups
Tokens ==
    {[GoodToken EXCEPT !.email = e] : e \in EmailClaims}
    \cup {[GoodToken EXCEPT !.groups = g] : g \in GroupClaims}
    \cup {[GoodToken EXCEPT !.form = f] : f \in {"malformed", "nokid"}}
    \cup {[GoodToken EXCEPT !.kid = k] : k \in Kids}
    \cup {[GoodToken EXCEPT !.sig = FALSE], [GoodToken EXCEPT !.exp = 1],
          [GoodToken EXCEPT !.aud = "other"], [GoodToken EXCEPT !.iss = "other"]}

\* verify_id_token: header, key, then signature, exp, aud and iss in jwt.decode
verify_id_token(cache, remote, tok, t, net1, net2) ==
    LET out(c, raised, code, fetched) ==
            [cache |-> c, raised |-> raised, code |-> code, fetched |-> fetched,
             claims |-> [email |-> tok.email, groups |-> tok.groups]]
    IN  IF tok.form = "malformed" THEN out(cache, "JWTError", 0, 0)
        ELSE IF tok.form = "nokid" THEN out(cache, "KeyError", 0, 0)
        ELSE LET k == get_key(cache, remote, tok.kid, net1, net2)
             IN  IF k.code # 0 THEN out(k.cache, "HTTPException", k.code, k.fetched)
                 ELSE IF ~tok.sig THEN out(k.cache, "JWTError", 0, k.fetched)
                 ELSE IF tok.exp < t THEN out(k.cache, "ExpiredSignatureError", 0, k.fetched)
                 ELSE IF tok.aud # CLIENT_ID THEN out(k.cache, "JWTClaimsError", 0, k.fetched)
                 ELSE IF tok.iss # ISSUER THEN out(k.cache, "JWTClaimsError", 0, k.fetched)
                 ELSE out(k.cache, "none", 0, k.fetched)

\* the margin and the default of get_token_expiration_seconds, in seconds
EXP_MARGIN == 60
DEFAULT_EXPIRATION == 3600

\* what jwt.get_unverified_claims finds as "exp" in a token: nothing, an
\* integer, or a string; a malformed token has no claims to read
ExpClaims ==
    {[kind |-> "absent", val |-> 0], [kind |-> "str", val |-> 0]}
    \cup {[kind |-> "int", val |-> v] :
             v \in {-5, 0, 1, 30, 59, 60, 61, 90, 119, 120, 121, 200}}
ExpTokens ==
    {[form |-> "jwt", exp |-> c] : c \in ExpClaims}
    \cup {[form |-> "malformed", exp |-> [kind |-> "absent", val |-> 0]]}
\* values of int(time.time())
TimeInputs == {0, 1, 30, 59, 60, 61, 100, 140, 200}

Max(a, b) == IF a >= b THEN a ELSE b

\* get_token_expiration_seconds: "if not exp" is true for a missing claim
\* and for 0; a string makes exp - current_time raise, which is caught
get_token_expiration_seconds(tok, current_time) ==
    IF tok.form # "jwt" THEN DEFAULT_EXPIRATION
    ELSE IF tok.exp.kind = "absent" THEN DEFAULT_EXPIRATION
    ELSE IF tok.exp.kind = "int" /\ tok.exp.val = 0 THEN DEFAULT_EXPIRATION
    ELSE IF tok.exp.kind = "str" THEN DEFAULT_EXPIRATION
    ELSE Max(0, (tok.exp.val - current_time) - EXP_MARGIN)

extract_groups(claims) ==
    IF claims.groups.kind = "list" THEN claims.groups.val ELSE <<>>

is_allowed_email(email) == DomainOf(lower(email)) = ALLOWED_DOMAIN

(* -------------------------------- deps -------------------------------- *)
Absent == [form |-> "absent"]
Range(q) == {q[i] : i \in DOMAIN q}

\* _read_token_from_request: the Bearer header first, then the cookie
read_token_from_request(r) ==
    IF r.bearer # Absent THEN [code |-> 0, token |-> r.bearer]
    ELSE IF r.cookie # Absent THEN [code |-> 0, token |-> r.cookie]
    ELSE [code |-> 401, token |-> Absent]

\* mutant: the status of the row is not tested
check_allowlist_any_status(s, email, expected_role) ==
    IF ~HasRow(s, email)
    THEN Http(403, "Usuario no esta autorizado")
    ELSE IF expected_role # "None" /\ s[email].role # expected_role
            /\ ~(expected_role = "Agent" /\ s[email].role = "Supervisor")
    THEN Http(403, "Role mismatch")
    ELSE Http(0, "")

\* mutant: a row that is not active gets a message of its own
check_allowlist_tells_status(s, email, expected_role) ==
    IF ~HasRow(s, email)
    THEN Http(403, "Usuario no esta autorizado")
    ELSE IF s[email].status # "active"
    THEN Http(403, "Cuenta inactiva")
    ELSE IF expected_role # "None" /\ s[email].role # expected_role
            /\ ~(expected_role = "Agent" /\ s[email].role = "Supervisor")
    THEN Http(403, "Role mismatch")
    ELSE Http(0, "")

\* mutant: the groups of the identity in the user pool are consulted
check_allowlist_and_provider(s, email, expected_role) ==
    IF ~HasRow(s, email) \/ s[email].status # "active"
    THEN Http(403, "Usuario no esta autorizado")
    ELSE IF cognito[email].exists /\ s[email].role \notin cognito[email].groups
    THEN Http(403, "Usuario no esta autorizado")
    ELSE IF expected_role # "None" /\ s[email].role # expected_role
            /\ ~(expected_role = "Agent" /\ s[email].role = "Supervisor")
    THEN Http(403, "Role mismatch")
    ELSE Http(0, "")

check_allowlist(s, email, expected_role) ==
    IF ~HasRow(s, email)
    THEN Http(403, "Usuario no esta autorizado")
    ELSE IF s[email].status # "active"
    THEN Http(403, "Usuario no esta autorizado")
    ELSE IF expected_role # "None" /\ s[email].role # expected_role
    THEN IF expected_role = "Agent" /\ s[email].role = "Supervisor"
         THEN Http(0, "")
         ELSE Http(403, "Role mismatch")
    ELSE Http(0, "")

\* what the framework answers for an exception that leaves the handler
status_of(raised, code) ==
    IF raised = "none" THEN 200
    ELSE IF raised = "HTTPException" THEN code ELSE 500

\* current_user; looked_up tells whether invited_users was queried
current_user(s, cache, remote, r, t, net1, net2) ==
    LET out(c, raised, code, detail, looked_up, email, groups) ==
            [cache |-> c, raised |-> raised, code |-> status_of(raised, code),
             detail |-> detail, verified |-> detail \notin {"Missing token", "verify"},
             looked_up |-> looked_up, email |-> email, groups |-> groups]
        rd == read_token_from_request(r)
    IN  IF rd.code # 0
        THEN out(cache, "HTTPException", 401, "Missing token", FALSE, "", <<>>)
        ELSE
        LET v == verify_id_token(cache, remote, rd.token, t, net1, net2)
            email == lower(v.claims.email)
            groups_list == extract_groups(v.claims)
        IN  IF v.raised # "none"
            THEN out(v.cache, v.raised, v.code, "verify", FALSE, "", <<>>)
            ELSE IF email = "" \/ ~is_allowed_email(email)
            THEN out(v.cache, "HTTPException", 403, "Email domain not allowed",
                     FALSE, email, <<>>)
            ELSE IF Range(groups_list) \cap ALLOWED_GROUPS = {}
            THEN out(v.cache, "HTTPException", 403, "Required group not present",
                     FALSE, email, <<>>)
            ELSE LET chk == check_allowlist(s, email, "None")
                 IN  IF chk.code # 0
                     THEN out(v.cache, "HTTPException", chk.code, chk.detail, TRUE,
                              email, <<>>)
                     ELSE out(v.cache, "none", 0, "", TRUE, email, groups_list)

\* the test require_supervisor makes on what current_user returned
supervisor_only(user) ==
    IF user.raised # "none" THEN user
    ELSE IF "Supervisor" \notin Range(user.groups)
    THEN [user EXCEPT !.raised = "HTTPException", !.code = 403,
                      !.detail = "Supervisor role required", !.groups = <<>>]
    ELSE user

require_supervisor(s, cache, remote, r, t, net1, net2) ==
    CHOOSE out \in {supervisor_only(user) :
                       user \in {current_user(s, cache, remote, r, t, net1, net2)}} : TRUE

(* ------------------------------- actions ------------------------------ *)
\* the principals the dependency hands to the administrative handlers
Principals == {[email |-> a, groups |-> {"Supervisor"}] : a \in Admins}
              \cup {[email |-> "s1@musclepoints.com", groups |-> {"Agent"}]}
Requests == {[bearer |-> b, cookie |-> Absent] : b \in Tokens \cup {Absent}}
            \cup {[bearer |-> b, cookie |-> GoodToken] :
                      b \in {Absent, [GoodToken EXCEPT !.sig = FALSE]}}
            \cup {[bearer |-> Absent, cookie |-> [GoodToken EXCEPT !.form = "malformed"]]}
\* the supervisor who calls the role endpoints
RoleAdmins == {"s1@musclepoints.com"}
Procs == {1, 2}

\* a group of the user pool that is not a role of this application
PoolGroups == CognitoGroups \cup {"Billing"}

\* what is wrong with the credential a request presents
Defect(r) ==
    LET rd == read_token_from_request(r)
        tok == rd.token
    IN  IF rd.code # 0 THEN "missing"
        ELSE IF tok.form # "jwt" THEN tok.form
        ELSE IF ~tok.sig THEN "signature"
        ELSE IF tok.exp < now THEN "expired"
        ELSE IF tok.aud # CLIENT_ID THEN "audience"
        ELSE IF tok.iss # ISSUER THEN "issuer"
        ELSE "none"

Idle == [token |-> NoToken]

Init0 ==
    /\ store = [e \in Emails |-> NoRow]
    /\ now = 0
    /\ issued = 0
    /\ audit = <<>>
    /\ jwks = <<>>
    /\ published = {"k1"}
    /\ pc = [p \in Procs |-> "idle"]
    /\ req = [p \in Procs |-> Idle]
    /\ last = [op |-> "init"]

\* a user pool without the invited users
Init == Init0 /\ cognito = [e \in Emails |-> NoIdentity]

\* a user pool in any state: the pool is owned by the provider
InitSync ==
    /\ now = 0
    /\ issued = 0
    /\ audit = <<>>
    /\ jwks = <<>>
    /\ published = {"k1"}
    /\ pc = [p \in Procs |-> "idle"]
    /\ req = [p \in Procs |-> Idle]
    /\ last = [op |-> "init"]
    /\ store \in [Emails -> {NoRow} \cup
                    {[role |-> r, status |-> "active", invited_by |-> "s1@musclepoints.com",
                      token |-> NoToken, token_expires_at |-> NoExpiry] : r \in ALLOWED_GROUPS}]
    /\ cognito \in [Emails -> {i \in Identities : i.exists => i.enabled}]

\* a user pool whose identities are also members of other groups
InitGroups ==
    /\ Init0
    /\ cognito \in [Emails -> {[exists |-> TRUE, groups |-> g, enabled |-> en] :
                                  g \in SUBSET PoolGroups, en \in BOOLEAN}]

Tick ==
    /\ now < MaxNow
    /\ now' = now + 1
    /\ last' = [op |-> "tick"]
    /\ UNCHANGED <<store, issued, cognito, audit, jwks, published, pc, req>>

Invite ==
    \E email \in EmailInputs, role \in RoleInputs, me \in Principals, sendOK \in BOOLEAN :
        /\ issued < MaxTokens
        /\ LET r == invite_user(store, email, role, me, token_urlsafe(issued), now, sendOK)
           IN  /\ store' = r.store
               /\ issued' = IF r.resp.code = 200 THEN issued + 1 ELSE issued
               /\ last' = [op |-> "invite", email |-> lower(email), role |-> role,
                           me |-> me.email,
                           before |-> IF HasRow(store, lower(email))
                                      THEN store[lower(email)].status ELSE "absent",
                           resp |-> r.resp]
        /\ UNCHANGED <<now, cognito, audit, jwks, published, pc, req>>

\* status of the row that holds a token, "none" when no row holds it
Holder(s, token) ==
    LET rows == {e \in DOMAIN s : HasRow(s, e) /\ s[e].token = token}
    IN  IF token = NoToken \/ rows = {} THEN "none"
        ELSE s[CHOOSE e \in rows : TRUE].status

Accept ==
    \E token \in 0..MaxTokens :
        /\ LET r == accept_invite(store, token, now)
           IN  /\ store' = r.store
               /\ last' = [op |-> "accept", token |-> token, before |-> Holder(store, token),
                           resp |-> r.resp]
        /\ UNCHANGED <<now, issued, cognito, audit, jwks, published, pc, req>>

SetStatus ==
    \E email \in EmailInputs, status \in StatusInputs, me \in Principals :
      \E fault \in FaultsFor(cognito, email, StatusFaults) :
        /\ LET r == update_user_status(store, cognito, email, status, me, fault)
           IN  /\ store' = r.store
               /\ cognito' = r.cognito
               /\ last' = [op |-> "status", email |-> lower(email), status |-> status,
                           resp |-> r.resp]
        /\ UNCHANGED <<now, issued, audit, jwks, published, pc, req>>

SetRole ==
    \E email \in EmailInputs, role \in ALLOWED_GROUPS, admin \in RoleAdmins,
       force \in BOOLEAN :
      \E fault \in FaultsFor(cognito, email, RoleFaults) :
        /\ Len(audit) < MaxAudit
        /\ LET r == promote_or_demote(store, cognito, audit, admin, email, role, force, fault)
           IN  /\ store' = r.store
               /\ cognito' = r.cognito
               /\ audit' = r.audit
               /\ last' = [op |-> "role", email |-> lower(email), role |-> role,
                           admin |-> admin, force |-> force, result |-> r.result]
        /\ UNCHANGED <<now, issued, jwks, published, pc, req>>

Repair ==
    \E email \in EmailInputs, admin \in RoleAdmins, force \in BOOLEAN :
      \E fault \in FaultsFor(cognito, email, RoleFaults) :
        /\ Len(audit) < MaxAudit
        /\ LET r == repair_to_db_role(store, cognito, audit, admin, email, force, fault)
           IN  /\ store' = r.store
               /\ cognito' = r.cognito
               /\ audit' = r.audit
               /\ last' = [op |-> "repair", email |-> lower(email), admin |-> admin,
                           force |-> force, result |-> r.result]
        /\ UNCHANGED <<now, issued, jwks, published, pc, req>>

AuthOut(op, r, u) ==
    [op |-> op, defect |-> Defect(r), code |-> u.code, raised |-> u.raised,
     detail |-> u.detail, verified |-> u.verified, looked_up |-> u.looked_up,
     email |-> u.email,
     groups |-> u.groups]

Authenticate ==
    \E r \in Requests, net1 \in BOOLEAN, net2 \in BOOLEAN :
        /\ \E u \in {current_user(store, jwks, published, r, now, net1, net2)} :
               /\ jwks' = u.cache
               /\ last' = AuthOut("current_user", r, u)
        /\ UNCHANGED <<store, now, issued, cognito, audit, published, pc, req>>

RequireSupervisor ==
    \E r \in Requests, net1 \in BOOLEAN, net2 \in BOOLEAN :
        /\ \E u \in {require_supervisor(store, jwks, published, r, now, net1, net2)} :
               /\ jwks' = u.cache
               /\ last' = AuthOut("require_supervisor", r, u)
        /\ UNCHANGED <<store, now, issued, cognito, audit, published, pc, req>>

CheckAllowlist ==
    \E email \in EmailInputs \cup {""}, expected \in ALLOWED_GROUPS \cup {"None"} :
        /\ last' = [op |-> "check_allowlist", email |-> email, expected |-> expected,
                    resp |-> check_allowlist(store, email, expected)]
        /\ UNCHANGED <<store, now, issued, cognito, audit, jwks, published, pc, req>>

(* ----------------- two accept requests served concurrently ------------ *)
\* Each request runs in its own transaction (READ COMMITTED): the SELECT sees

\* one call of set_cognito_role on an identity of the pool
SetCognitoRole ==
    \E username \in Emails, target \in CognitoGroups, fault \in RoleFaults :
        /\ LET r == set_cognito_role(cognito, username, target, fault)
           IN  /\ cognito' = r.cognito
               /\ last' = [op |-> "set_cognito_role", username |-> username,
                           target |-> target, raised |-> r.raised,
                           failed |-> r.failed, before |-> r.before,
                           after |-> r.after, changed |-> r.changed]
        /\ UNCHANGED <<store, now, issued, audit, jwks, published, pc, req>>

\* GET /admin/roles/inspect, with the role request it follows
Inspect ==
    \E email \in EmailInputs, fault \in {"none", "list_users", "list_groups_before"} :
        /\ last' = [op |-> "inspect",
                    after |-> IF last.op \in {"role", "repair"} THEN last
                              ELSE [op |-> last.op],
                    answer |-> inspect(store, cognito, email, fault)]
        /\ UNCHANGED <<store, now, issued, cognito, audit, jwks, published, pc, req>>

\* update_user_status with the calls it makes; a failed store write leaves
\* the block by an exception: rollback, 500
SetStatusCalls ==
    \E email \in EmailInputs, status \in StatusInputs, me \in Principals :
      \E fault \in FaultsFor(cognito, email, StatusFaults) \cup {"UPDATE"} :
        /\ LET calls == update_user_status_calls(store, cognito, email, status, me, fault)
               aborted == fault = "UPDATE" /\ "UPDATE" \in Range(calls)
               r == update_user_status(store, cognito, email, status, me,
                                       IF fault = "UPDATE" THEN "none" ELSE fault)
           IN  /\ store' = IF aborted THEN store ELSE r.store
               /\ cognito' = IF aborted THEN cognito ELSE r.cognito
               /\ last' = [op |-> "status_calls", email |-> lower(email), status |-> status,
                           code |-> IF aborted THEN 500 ELSE r.resp.code,
                           calls |-> calls]
        /\ UNCHANGED <<now, issued, audit, jwks, published, pc, req>>

\* promote_or_demote with the calls it makes; a failed store write leaves
\* the block by an exception before any provider call
SetRoleCalls ==
    \E email \in EmailInputs, role \in ALLOWED_GROUPS, admin \in RoleAdmins,
       force \in BOOLEAN :
      \E fault \in FaultsFor(cognito, email, RoleFaults) \cup {"UPDATE"} :
        /\ Len(audit) < MaxAudit
        /\ LET calls == promote_or_demote_calls(store, cognito, email, role, force, fault)
               aborted == fault = "UPDATE" /\ "UPDATE" \in Range(calls)
               r == promote_or_demote(store, cognito, audit, admin, email, role, force,
                                      IF fault = "UPDATE" THEN "none" ELSE fault)
           IN  /\ store' = IF aborted THEN store ELSE r.store
               /\ cognito' = IF aborted THEN cognito ELSE r.cognito
               /\ audit' = IF aborted THEN audit ELSE r.audit
               /\ last' = [op |-> "role_calls", email |-> lower(email), role |-> role,
                           force |-> force,
                           raised |-> IF aborted THEN "Exception" ELSE r.result.raised,
                           calls |-> calls]
        /\ UNCHANGED <<now, issued, jwks, published, pc, req>>
\* what is committed; the UPDATE waits for the row lock of a concurrent
\* UPDATE, evaluates its WHERE on the committed row, and is committed next.
Other(p) == CHOOSE q \in Procs : q # p

\* SELECT and expiry test of request p; a 400 ends the request here
AcceptBegin(p) ==
    \E token \in 1..MaxTokens :
        /\ pc[p] = "idle"
        /\ LET rd == accept_read(store, token, now)
               mine == [token |-> token, rd |-> rd, resp |-> rd,
                        pending |-> rd.code = 0 /\ rd.current_status = "pending",
                        overlaps |-> pc[Other(p)] = "update"]
           IN  /\ req' = [req EXCEPT ![p] = mine]
               /\ pc' = [pc EXCEPT ![p] = IF rd.code = 0 THEN "update" ELSE "done"]
        /\ last' = [op |-> "accept_begin", proc |-> p]
        /\ UNCHANGED <<store, now, issued, cognito, audit, jwks, published>>

\* UPDATE, rowcount test and commit of request p
AcceptCommit(p) ==
    /\ pc[p] = "update"
    /\ LET r == accept_update(store, req[p].rd, req[p].token)
       IN  /\ store' = r.store
           /\ req' = [req EXCEPT ![p].resp = r.resp]
    /\ pc' = [pc EXCEPT ![p] = "done"]
    /\ last' = [op |-> "accept_commit", proc |-> p]
    /\ UNCHANGED <<now, issued, cognito, audit, jwks, published>>

\* the response of request p is sent; a process serves its next request
\* once no request that overlapped this one is still running
AcceptEnd(p) ==
    /\ pc[p] = "done"
    /\ pc[Other(p)] # "update"
    /\ pc' = [pc EXCEPT ![p] = "idle"]
    /\ req' = [req EXCEPT ![p] = Idle]
    /\ last' = [op |-> "accept_end", proc |-> p]
    /\ UNCHANGED <<store, now, issued, cognito, audit, jwks, published>>

\* checks, token and SELECT of invite request p; a 400 or 403 ends it here
InviteBegin(p) ==
    \E email \in EmailInputs, role \in RoleInputs, me \in Principals, sendOK \in BOOLEAN :
        /\ pc[p] = "idle"
        /\ issued < MaxTokens
        /\ LET rd == invite_select(store, email, role, me)
               mine == [token |-> token_urlsafe(issued), rd |-> rd, email |-> email,
                        role |-> role, me |-> me, t |-> now, sendOK |-> sendOK]
           IN  /\ req' = [req EXCEPT ![p] = IF rd.code = 0 THEN mine ELSE Idle]
               /\ pc' = [pc EXCEPT ![p] = IF rd.code = 0 THEN "invite" ELSE "idle"]
               /\ issued' = IF rd.code = 0 THEN issued + 1 ELSE issued
               /\ last' = [op |-> "invite_begin", proc |-> p, email |-> lower(email),
                           code |-> rd.code]
        /\ UNCHANGED <<store, now, cognito, audit, jwks, published>>

\* UPDATE or INSERT, commit and response of invite request p
InviteCommit(p) ==
    /\ pc[p] = "invite"
    /\ LET q == req[p]
           r == invite_write(store, q.rd, q.email, q.role, q.me, q.token, q.t, q.sendOK)
       IN  /\ store' = r.store
           /\ last' = [op |-> "invite_commit", proc |-> p, email |-> lower(q.email),
                       statement |-> q.rd.statement, resp |-> r.resp]
    /\ pc' = [pc EXCEPT ![p] = "idle"]
    /\ req' = [req EXCEPT ![p] = Idle]
    /\ UNCHANGED <<now, issued, cognito, audit, jwks, published>>

\* invite is serialised with the accept requests by its caller
InviteSerial ==
    /\ \A p \in Procs : pc[p] = "idle"
    /\ Invite

(* ------------------------------ key cache ----------------------------- *)
GetKey ==
    \E kid \in Kids, net1 \in BOOLEAN, net2 \in BOOLEAN :
        /\ LET k == get_key(jwks, published, kid, net1, net2)
           IN  /\ jwks' = k.cache
               /\ last' = [op |-> "get_key", kid |-> kid, net1 |-> net1, net2 |-> net2,
                           code |-> k.code, fetched |-> k.fetched, cleared |-> k.cleared]
        /\ UNCHANGED <<store, now, issued, cognito, audit, published, pc, req>>

\* the provider rotates its signing keys
Rotate ==
    \E keys \in SUBSET Kids :
        /\ keys # published
        /\ published' = keys
        /\ last' = [op |-> "rotate"]
        /\ UNCHANGED <<store, now, issued, cognito, audit, jwks, pc, req>>

(* ------------- _get_key called by concurrent request threads ---------- *)
\* current_user is a synchronous dependency: the framework runs it in a
\* thread pool, and lru_cache holds no lock while the wrapped function runs.
\* A thread p is in _fetch_jwks ("request1", "request2": requests.get under
\* way), at a key lookup ("lookup1", "lookup2"), or past cache_clear()
\* ("refresh").
KeyIdle == [kid |-> "none", keys |-> {}, code |-> 0, fetched |-> 0]

\* the call of _get_key(kid) and the cache test of its first _fetch_jwks()
KeyCall(p) ==
    \E kid \in Kids :
        /\ pc[p] = "idle"
        /\ req' = [req EXCEPT ![p] = [kid |-> kid,
                                      keys |-> IF jwks # <<>> THEN jwks[1] ELSE {},
                                      code |-> 0, fetched |-> 0]]
        /\ pc' = [pc EXCEPT ![p] = IF jwks # <<>> THEN "lookup1" ELSE "request1"]
        /\ last' = [op |-> "key_call", proc |-> p]
        /\ UNCHANGED <<store, now, issued, cognito, audit, jwks, published>>

\* requests.get returns: the key set is cached, or 502 is raised
KeyResponse(p) ==
    \E netOK \in BOOLEAN :
        /\ pc[p] \in {"request1", "request2"}
        /\ jwks' = IF netOK THEN <<published>> ELSE jwks
        /\ req' = [req EXCEPT ![p].keys = IF netOK THEN published ELSE {},
                              ![p].code = IF netOK THEN 0 ELSE 502,
                              ![p].fetched = @ + 1]
        /\ pc' = [pc EXCEPT ![p] = IF ~netOK THEN "done"
                                   ELSE IF pc[p] = "request1" THEN "lookup1"
                                   ELSE "lookup2"]
        /\ last' = [op |-> "key_response", proc |-> p]
        /\ UNCHANGED <<store, now, issued, cognito, audit, published>>

\* the search of the key set: the first miss clears the cache, the second
\* raises 401
KeyLookup(p) ==
    /\ pc[p] \in {"lookup1", "lookup2"}
    /\ LET hit == req[p].kid \in req[p].keys
       IN  /\ jwks' = IF ~hit /\ pc[p] = "lookup1" THEN cache_clear(jwks) ELSE jwks
           /\ pc' = [pc EXCEPT ![p] = IF hit \/ pc[p] = "lookup2" THEN "done"
                                      ELSE "refresh"]
           /\ req' = [req EXCEPT ![p].code = IF hit THEN 0
                                             ELSE IF pc[p] = "lookup2" THEN 401 ELSE 0]
    /\ last' = [op |-> "key_lookup", proc |-> p]
    /\ UNCHANGED <<store, now, issued, cognito, audit, published>>

\* the cache test of the second _fetch_jwks()
KeyRefresh(p) ==
    /\ pc[p] = "refresh"
    /\ req' = [req EXCEPT ![p].keys = IF jwks # <<>> THEN jwks[1] ELSE {}]
    /\ pc' = [pc EXCEPT ![p] = IF jwks # <<>> THEN "lookup2" ELSE "request2"]
    /\ last' = [op |-> "key_refresh", proc |-> p]
    /\ UNCHANGED <<store, now, issued, cognito, audit, jwks, published>>

\* _get_key returns or raises
KeyReturn(p) ==
    /\ pc[p] = "done"
    /\ pc' = [pc EXCEPT ![p] = "idle"]
    /\ req' = [req EXCEPT ![p] = KeyIdle]
    /\ last' = [op |-> "key_return", proc |-> p]
    /\ UNCHANGED <<store, now, issued, cognito, audit, jwks, published>>

(* ---------------------------- session cookie -------------------------- *)
\* auth_exchange sets the cookie with max_age = get_token_expiration_seconds
GetTokenExpiration ==
    \E tok \in ExpTokens, current_time \in TimeInputs :
        /\ last' = [op |-> "expiration", tok |-> tok, time |-> current_time,
                    max_age |-> get_token_expiration_seconds(tok, current_time)]
        /\ UNCHANGED <<store, now, issued, cognito, audit, jwks, published, pc, req>>

(* --------------------------- specifications --------------------------- *)
\* the invite lifecycle, one request at a time
Next == Tick \/ Invite \/ Accept \/ SetStatus
Spec == Init /\ [][Next]_vars

\* the request-time authorisation over the lifecycle
NextAuth == Tick \/ Invite \/ Accept \/ Authenticate \/ RequireSupervisor \/ CheckAllowlist
SpecAuth == Init /\ [][NextAuth]_vars

\* authentication against every administrative change of the record
NextRevoke == Invite \/ Accept \/ SetStatus \/ SetRole \/ Authenticate
SpecRevoke == Init /\ [][NextRevoke]_vars

\* the role mirror, on any allowlist row and any state of the user pool
NextSync == SetRole \/ Repair
SpecSync == InitSync /\ [][NextSync]_vars

\* two concurrent accept requests
NextAccept ==
    \/ Tick
    \/ InviteSerial
    \/ \E p \in Procs : AcceptBegin(p)
    \/ \E p \in Procs : AcceptCommit(p)
    \/ \E p \in Procs : AcceptEnd(p)
SpecAccept == Init /\ [][NextAccept]_vars

\* the key cache under key rotation
NextKeys == GetKey \/ Rotate
SpecKeys == Init /\ [][NextKeys]_vars

\* the key cache shared by two request threads
NextKeyThreads ==
    \/ Rotate
    \/ \E p \in Procs : KeyCall(p)
    \/ \E p \in Procs : KeyResponse(p)
    \/ \E p \in Procs : KeyLookup(p)
    \/ \E p \in Procs : KeyRefresh(p)
    \/ \E p \in Procs : KeyReturn(p)
SpecKeyThreads == Init /\ [][NextKeyThreads]_vars

\* request-time authorisation while the administrators change the user pool
NextProvider == SetStatus \/ Repair \/ Authenticate \/ RequireSupervisor
SpecProvider == InitSync /\ [][NextProvider]_vars

\* the life of the session cookie
NextExpiration == GetTokenExpiration
SpecExpiration == Init /\ [][NextExpiration]_vars

\* accept requests with invite and status requests served between their steps
NextAcceptInvite ==
    \/ Invite
    \/ SetStatus
    \/ \E p \in Procs : AcceptBegin(p)
    \/ \E p \in Procs : AcceptCommit(p)
    \/ \E p \in Procs : AcceptEnd(p)
SpecAcceptInvite == Init /\ [][NextAcceptInvite]_vars

\* the order of the store write, the provider calls and the audit
NextOrder == SetStatusCalls \/ SetRoleCalls
SpecOrder == InitSync /\ [][NextOrder]_vars

\* the group reconciliation on every membership of the pool
NextGroups == SetCognitoRole
SpecGroups == InitGroups /\ [][NextGroups]_vars

\* invite requests with status and accept requests served between their steps
NextInviteRace ==
    \/ \E p \in Procs : InviteBegin(p)
    \/ \E p \in Procs : InviteCommit(p)
    \/ SetStatus
    \/ Accept
SpecInviteRace == Init /\ [][NextInviteRace]_vars

\* the role mirror and its inspection
NextInspect == SetRole \/ Repair \/ Inspect
SpecInspect == InitSync /\ [][NextInspect]_vars

(* ------------------------------- claims ------------------------------- *)
\* the provider calls of the mirror step of promote_or_demote
MirrorCalls == {"list_users", "list_groups_before", "add_user_to_group",
                "remove_user_from_group", "list_groups_after"}

\* C1: when promote_or_demote is called with a role that differs from the
\* stored one and a provider call of the mirror step fails, the call does not
\* raise, the new role is stored (db_changed) and cognito_changed is false.
C1_MirrorFailureKeepsRole ==
    [][(/\ last'.op = "role"
        /\ HasRow(store, last'.email)
        /\ store[last'.email].role # last'.role
        /\ last'.result.failed \in MirrorCalls)
       => (/\ last'.result.raised = "none"
           /\ store'[last'.email].role = last'.role
           /\ last'.result.db_changed
           /\ ~last'.result.cognito_changed)]_vars

\* C9: after promote_or_demote or repair_to_db_role was called for an e-mail
\* without a row, the call has failed with ValueError and the audit table
\* holds the db-miss row of the attempt (actor, target, action kind).
C9_DbMissAudited ==
    (last.op \in {"role", "repair"} /\ ~HasRow(store, last.email))
    => /\ last.result.raised = "ValueError"
       /\ \E i \in DOMAIN audit :
            /\ audit[i].admin = last.admin
            /\ audit[i].email = last.email
            /\ audit[i].action = (IF last.op = "role" THEN "change:db-miss"
                                  ELSE "repair:db-miss")

\* C2: two overlapping accept requests for the token of a pending row, valid
\* when the first request read it: exactly one answers 200, the other 400,
\* and the row is then active without a token.
C2_SingleConsumption ==
    \A p \in Procs :
        LET q == Other(p)
        IN  (/\ pc[p] = "done" /\ pc[q] = "done"
             /\ req[p].token = req[q].token
             /\ req[p].pending
             /\ req[q].overlaps)
            => /\ {req[p].resp.code, req[q].resp.code} = {200, 400}
               /\ store[req[p].rd.email].status = "active"
               /\ store[req[p].rd.email].token = NoToken
               /\ store[req[p].rd.email].token_expires_at = NoExpiry

\* both requests read the pending row before either wrote; the later
\* UPDATE matched no row
C2_Witness ==
    /\ pc[1] = "done" /\ pc[2] = "done"
    /\ req[1].token = req[2].token
    /\ req[1].pending /\ req[2].pending /\ req[2].overlaps
    /\ req[1].resp.code = 400
    /\ req[1].resp.detail = "Token invalido o ya consumido"
    /\ req[2].resp.code = 200

\* C3: current_user returns a principal only for an e-mail whose row is
\* active; a verified credential whose row is absent, pending or revoked is
\* answered 403, whatever invite, accept, role and status calls came before.
C3_OnlyActiveAuthenticates ==
    last.op = "current_user"
    => LET active == HasRow(store, last.email) /\ store[last.email].status = "active"
       IN  /\ last.code = 200 => active
           /\ (last.verified /\ ~active) => last.code = 403

\* a verified credential is refused after the row was revoked
C3_Witness ==
    /\ last.op = "current_user"
    /\ last.verified /\ last.looked_up
    /\ HasRow(store, last.email) /\ store[last.email].status = "revoked"
    /\ last.code = 403

\* C4: the allowlist check with expected role Agent passes for an active
\* Supervisor row, and require_supervisor rejects every caller whose row has
\* role Agent, whatever groups the credential asserts.
C4_Subsumption ==
    /\ (/\ last.op = "check_allowlist" /\ last.expected = "Agent"
        /\ HasRow(store, last.email)
        /\ store[last.email].status = "active"
        /\ store[last.email].role = "Supervisor")
       => last.resp.code = 0
    /\ (/\ last.op = "require_supervisor"
        /\ HasRow(store, last.email)
        /\ store[last.email].role = "Agent")
       => last.code # 200

\* C5: invite_user on a pending or active row keeps the status, stores a new
\* token unlike the previous one with a new expiry, and the role and inviter
\* of the call; accept of the previous token then answers 400 and changes
\* nothing.
C5_IdempotentInvite ==
    [][(/\ last'.op = "invite" /\ last'.resp.code = 200
        /\ HasRow(store, last'.email)
        /\ store[last'.email].status \in {"pending", "active"})
       => LET old == store[last'.email]
              new == store'[last'.email]
              again == accept_invite(store', old.token, now')
          IN  /\ new.status = old.status
              /\ new.token # NoToken /\ new.token # old.token
              /\ new.token_expires_at = now + INVITE_EXP_DAYS
              /\ new.role = last'.role
              /\ new.invited_by = last'.me
              /\ old.token # NoToken
                 => (again.resp.code = 400 /\ again.store = store')]_vars

\* a pending row that held a token was invited again
C5_Witness ==
    /\ last.op = "invite" /\ last.resp.code = 200
    /\ last.before = "pending"
    /\ issued >= 2
    /\ store[last.email].status = "pending"

\* C6: accept of a token whose row has token_expires_at before now answers
\* 400 "Token expirado", whatever the status, and changes nothing; accept of
\* the token of a pending row whose expiry is after now succeeds.
C6_Expiry ==
    [][(last'.op = "accept" /\ last'.token # NoToken)
       => \A e \in DOMAIN store :
            (HasRow(store, e) /\ store[e].token = last'.token)
            => /\ store[e].token_expires_at < now
                  => /\ last'.resp.code = 400
                     /\ last'.resp.detail = "Token expirado"
                     /\ store' = store
               /\ (store[e].status = "pending" /\ store[e].token_expires_at > now)
                  => /\ last'.resp.code = 200
                     /\ store'[e].status = "active"]_vars

\* an expired token of an active row was refused
C6_Witness ==
    /\ last.op = "accept"
    /\ last.before = "active"
    /\ last.resp.detail = "Token expirado"

\* C7: accept of the unexpired token of a row that is already active
\* answers 200, clears token and token_expires_at and leaves status and role;
\* accept of the same token afterwards answers 400.
C7_ActiveIdempotence ==
    [][(last'.op = "accept" /\ last'.token # NoToken)
       => \A e \in DOMAIN store :
            (/\ HasRow(store, e) /\ store[e].token = last'.token
             /\ store[e].status = "active"
             /\ store[e].token_expires_at >= now)
            => /\ last'.resp.code = 200
               /\ store'[e] = [store[e] EXCEPT !.token = NoToken,
                                               !.token_expires_at = NoExpiry]
               /\ accept_invite(store', last'.token, now').resp.code = 400]_vars

\* the token of an active row was accepted
C7_Witness ==
    /\ last.op = "accept"
    /\ last.before = "active"
    /\ last.resp.code = 200
    /\ store[last.resp.email].status = "active"
    /\ store[last.resp.email].token = NoToken

\* C8: a request without credential, or whose credential fails verification
\* (malformed, no key id, signature, expiry, audience, issuer), is answered
\* 401 and invited_users is not queried; a failed fetch of the key set, which
\* is answered 502, is left aside.
C8_CredentialFailureIs401 ==
    (last.op = "current_user" /\ last.defect # "none" /\ last.code # 502)
    => (last.code = 401 /\ ~last.looked_up)

\* C10: _get_key returns a cached key without a request; when the key set it
\* holds lacks the key it clears the cache and fetches once more, then returns
\* the key if it is published, answers 401 if not, and 502 if a request fails;
\* a failed request leaves the cache empty.
C10_KeyCache ==
    [][last'.op = "get_key"
       => LET kid == last'.kid
              warm == jwks # <<>>
              hit == warm /\ kid \in jwks[1]
          IN  /\ hit => /\ last'.code = 0 /\ last'.fetched = 0 /\ last'.cleared = 0
                        /\ jwks' = jwks
              /\ (warm /\ ~hit)
                 => /\ last'.cleared = 1 /\ last'.fetched = 1
                    /\ last'.code = (IF ~last'.net1 THEN 502
                                     ELSE IF kid \in published THEN 0 ELSE 401)
              /\ ~warm
                 => /\ last'.fetched = 1 + last'.cleared
                    /\ ~last'.net1 => (last'.code = 502 /\ last'.cleared = 0)
                    /\ (last'.net1 /\ kid \in published)
                       => (last'.code = 0 /\ last'.cleared = 0)
                    /\ (last'.net1 /\ kid \notin published)
                       => /\ last'.cleared = 1
                          /\ last'.code = (IF last'.net2 THEN 401 ELSE 502)
              /\ last'.code = 502 => jwks' = <<>>
              /\ (~hit /\ last'.code \in {0, 401}) => jwks' = <<published>>]_vars

\* a rotated key was found by the forced refresh
C10_Witness ==
    /\ last.op = "get_key"
    /\ last.cleared = 1 /\ last.fetched = 1
    /\ last.code = 0
    /\ jwks = <<published>>

\* C11: single-flight: two threads that missed the cached key set never
\* both have a request for the refreshed key set under way.
C11_SingleFlight ==
    \A p \in Procs : ~(pc[p] = "request2" /\ pc[Other(p)] = "request2")

\* C12: update_user_status by a supervisor, with an allowed status, for an
\* e-mail that has a row: whatever provider call fails, the call answers 200
\* and the new status is stored.
C12_StatusSurvivesProvider ==
    [][(/\ last'.op = "status"
        /\ HasRow(store, last'.email)
        /\ last'.resp.code \notin {400, 403})
       => (/\ last'.resp.code = 200
           /\ store'[last'.email].status = last'.status)]_vars

\* C13: every update_user_status call that completes appends one audit
\* entry for its target, and the entries written before stay as they were.
C13_StatusAudited ==
    [][(last'.op = "status" /\ last'.resp.code = 200)
       => (/\ Len(audit') = Len(audit) + 1
           /\ SubSeq(audit', 1, Len(audit)) = audit
           /\ audit'[Len(audit')].email = last'.email)]_vars

\* C14: an invite_user call that passes its validation answers 200 with the
\* token of the accept URL whether or not the e-mail could be sent; the row
\* it wrote is committed, and accept of that token succeeds at every time up
\* to token_expires_at.
C14_BestEffortEmail ==
    [][(last'.op = "invite" /\ last'.resp.code \notin {400, 403})
       => LET e == last'.email
              tok == last'.resp.token
          IN  /\ last'.resp.code = 200
              /\ tok # NoToken
              /\ HasRow(store', e)
              /\ store'[e].token = tok
              /\ store'[e].role = last'.role
              /\ store'[e].status = last'.resp.status
              /\ \A t \in now'..MaxNow :
                    t <= store'[e].token_expires_at
                    => LET a == accept_invite(store', tok, t)
                       IN  a.resp.code = 200 /\ a.store[e].status = "active"]_vars

\* an invitation whose e-mail could not be sent is stored
C14_Witness ==
    /\ last.op = "invite"
    /\ last.resp.code = 200
    /\ ~last.resp.email_sent
    /\ store[last.email].token = last.resp.token
    /\ store[last.email].status = "pending"

\* C15: for a row that is pending or revoked, current_user answers every
\* request as it would if the row were absent: the same status code and the
\* same message, 403 when the credential is valid.
C15_NoExistenceLeak ==
    \A e \in DOMAIN store :
        store[e].status \in {"pending", "revoked"}
        => \A r \in Requests, net1 \in BOOLEAN, net2 \in BOOLEAN :
             LET with_row == current_user(store, jwks, published, r, now, net1, net2)
                 without == current_user([store EXCEPT ![e] = NoRow], jwks, published,
                                         r, now, net1, net2)
             IN  /\ with_row.code = without.code
                 /\ with_row.detail = without.detail
                 /\ with_row.raised = without.raised
                 /\ with_row.looked_up => with_row.code = 403

\* a valid credential was refused for a revoked row with the generic message
C15_Witness ==
    /\ last.op = "current_user"
    /\ last.looked_up
    /\ last.code = 403
    /\ last.detail = "Usuario no esta autorizado"
    /\ HasRow(store, last.email)
    /\ store[last.email].status = "revoked"
    /\ store[last.email].token = NoToken

\* requests with a valid credential that asserts group Agent, one that
\* asserts Supervisor, and one whose signature is wrong
AuthProbes ==
    {[bearer |-> b, cookie |-> Absent] :
        b \in {GoodToken,
               [GoodToken EXCEPT !.groups = [kind |-> "list", val |-> <<"Supervisor">>]],
               [GoodToken EXCEPT !.sig = FALSE]}}

\* what the two dependencies answer to a request in the current state
AuthAnswers(r, net1, net2) ==
    {<<"current_user", u.code, u.detail, u.email, u.groups>> :
        u \in {current_user(store, jwks, published, r, now, net1, net2)}}
    \cup {<<"require_supervisor", u.code, u.detail, u.email, u.groups>> :
        u \in {require_supervisor(store, jwks, published, r, now, net1, net2)}}

\* C16: a step that changes the user pool (identity, groups, enabled flag)
\* and leaves the allowlist, the key set and the clock as they are changes
\* the answer of current_user and require_supervisor to a request of
\* AuthProbes (the key set being reachable); and a
\* step of either dependency writes neither the allowlist, the user pool nor
\* the audit log.
C16_ProviderNotConsulted ==
    [][/\ (/\ cognito' # cognito
           /\ store' = store /\ jwks' = jwks /\ published' = published /\ now' = now)
          => \A r \in AuthProbes :
                AuthAnswers(r, TRUE, TRUE)' = AuthAnswers(r, TRUE, TRUE)
       /\ last'.op \in {"current_user", "require_supervisor"}
          => (store' = store /\ cognito' = cognito /\ audit' = audit)]_vars

\* a request was admitted although the identity of the caller is disabled in
\* the user pool and in no group
C16_Witness ==
    /\ last.op = "require_supervisor"
    /\ last.code = 200
    /\ cognito[last.email].exists
    /\ ~cognito[last.email].enabled
    /\ "Supervisor" \notin cognito[last.email].groups

\* C17: for a token whose claims carry an integer exp the result is
\* max(0, exp - now - 60), so it is at most the time the token has left; for
\* a token without exp or one that cannot be parsed it is 3600; it is never
\* negative.
C17_RemainingValidity ==
    last.op = "expiration"
    => LET tok == last.tok
           carries == tok.form = "jwt" /\ tok.exp.kind = "int"
       IN  /\ carries => last.max_age = Max(0, tok.exp.val - last.time - 60)
           /\ carries => last.max_age <= Max(0, tok.exp.val - last.time)
           /\ (tok.form # "jwt" \/ tok.exp.kind # "int") => last.max_age = 3600
           /\ last.max_age >= 0

\* C18: repair_to_db_role leaves every row of invited_users as it was,
\* whether it succeeds, finds no identity, or fails.
C18_RepairKeepsSource ==
    [][last'.op = "repair" => store' = store]_vars

\* a repair changed the groups of the identity
C18_Witness ==
    /\ last.op = "repair"
    /\ last.result.raised = "none"
    /\ last.result.cognito_changed
    /\ store[last.email].role \in cognito[last.email].groups
    /\ Len(audit) = 1

\* C19: the UPDATE of an accept request changes nothing when the row no
\* longer holds the token of the request, so a token issued by an invite
\* between the SELECT and the UPDATE is never cleared.
C19_WritesKeyedByToken ==
    [][\A p \in Procs :
          (/\ pc[p] = "update" /\ pc'[p] = "done"
           /\ HasRow(store, req[p].rd.email)
           /\ store[req[p].rd.email].token # req[p].token)
          => store' = store]_vars

\* C20: after an accept call that found the token of its row expired, no row
\* holds that token any more: token and token_expires_at of the row are null.
C20_ExpiredTokenCleared ==
    (last.op = "accept" /\ last.resp.detail = "Token expirado")
    => \A e \in DOMAIN store :
         HasRow(store, e)
         => (store[e].token # last.token \/ store[e].token = NoToken)

\* C21: in every role or status mutation the store write comes before any
\* call to the identity provider, the session is invalidated only after the
\* mirror step, the audit is the last statement before the commit, and a
\* failed store write is preceded and followed by no provider call
C21_FixedStepOrder ==
    last.op \in {"status_calls", "role_calls"} =>
        LET calls == last.calls
            n == Len(calls)
        IN  /\ \A i \in 1..n : \A j \in 1..n :
                   (i < j /\ calls[j] = "UPDATE") => calls[i] \notin ProviderCalls
            /\ \A i \in 1..n : \A j \in 1..n :
                   (i < j /\ calls[i] = "global_sign_out")
                       => calls[j] \notin ProviderCalls \ {"global_sign_out"}
            /\ \A i \in 1..n :
                   (calls[i] = "INSERT" /\ i < n) => (i + 1 = n /\ calls[n] = "COMMIT")

\* C22: after a successful set_cognito_role the membership of the identity
\* within {Agent, Supervisor} is exactly the target, its other memberships are
\* as before, and changed is returned true exactly when the prior membership
\* within {Agent, Supervisor} was not already the target alone
C22_GroupReconciliation ==
    [][(last'.op = "set_cognito_role" /\ last'.raised = "none") =>
          LET u == last'.username
              prior == cognito[u].groups
              post == cognito'[u].groups
          IN  /\ post \cap CognitoGroups = {last'.target}
              /\ post \ CognitoGroups = prior \ CognitoGroups
              /\ last'.changed <=> (prior \cap CognitoGroups # {last'.target})
              /\ last'.before = prior /\ last'.after = post]_vars

C22_Witness ==
    /\ last.op = "set_cognito_role" /\ last.raised = "none" /\ last.changed
    /\ last.before = {"Supervisor", "Billing"}
    /\ cognito[last.username].groups = {"Agent", "Billing"}

\* C23: a role change or repair attempts the global sign-out exactly when
\* force_logout is set and the mirror changed the groups; tokens_revoked is
\* reported only when the sign-out succeeded; a failed sign-out leaves the
\* stored role, the new groups and the audit entry in place and the call
\* succeeds
C23_SignOut ==
    [][(last'.op \in {"role", "repair"} /\ last'.result.raised = "none") =>
          LET res == last'.result
              e == last'.email
              attempted == res.tokens_revoked \/ res.failed = "global_sign_out"
              target == IF last'.op = "role" THEN last'.role ELSE store[e].role
          IN  /\ attempted <=> (last'.force /\ res.cognito_changed)
              /\ res.tokens_revoked => res.failed = "none"
              /\ res.failed = "global_sign_out" =>
                     /\ store'[e].role = target
                     /\ cognito'[e].groups = {target} /\ cognito' # cognito
                     /\ audit' = Append(audit, audit'[Len(audit')])
                     /\ audit'[Len(audit')].db_to = target
                     /\ ~audit'[Len(audit')].tokens_revoked]_vars

C23_Witness ==
    /\ last.op = "role" /\ last.force
    /\ last.result.raised = "none" /\ last.result.failed = "global_sign_out"
    /\ last.result.db_changed /\ last.result.cognito_changed
    /\ store[last.email].role = last.role
    /\ Len(audit) = 1

\* C24: a role change for an e-mail that has an allowlist row and no identity
\* in the user pool succeeds with cognito_changed and tokens_revoked false,
\* stores the new role when it differs, leaves the user pool as it was, and
\* appends exactly one cognito-miss audit entry
C24_CognitoMiss ==
    [][(/\ last'.op = "role"
        /\ HasRow(store, last'.email)
        /\ ~cognito[last'.email].exists
        /\ last'.result.failed # "list_users") =>
          LET res == last'.result
              e == last'.email
          IN  /\ res.raised = "none" /\ res.failed = "none"
              /\ ~res.cognito_changed /\ ~res.tokens_revoked
              /\ res.db_changed <=> (store[e].role # last'.role)
              /\ store' = [store EXCEPT ![e].role = last'.role]
              /\ cognito' = cognito
              /\ Len(audit') = Len(audit) + 1
              /\ SubSeq(audit', 1, Len(audit)) = audit
              /\ audit'[Len(audit')].action = "change:cognito-miss"
              /\ audit'[Len(audit')].db_from = store[e].role
              /\ audit'[Len(audit')].db_to = last'.role]_vars

C24_Witness ==
    /\ last.op = "role"
    /\ last.result.raised = "none" /\ last.result.db_changed
    /\ ~cognito[last.email].exists
    /\ store[last.email].role = last.role
    /\ Len(audit) = 1 /\ audit[1].action = "change:cognito-miss"

\* C25: an accepted invitation for an e-mail without a row or with a revoked
\* row leaves the row pending with a token never issued before, an expiry of
\* now plus INVITE_EXP_DAYS, and the role and inviter of the call; an
\* invitation answered 400 (role or domain) changes no row
C25_InviteCreatesPending ==
    [][(last'.op = "invite") =>
          /\ (last'.resp.code = 200 /\ last'.before \in {"absent", "revoked"}) =>
                 /\ store'[last'.email] =
                        [role |-> last'.role, status |-> "pending",
                         invited_by |-> last'.me, token |-> last'.resp.token,
                         token_expires_at |-> now + INVITE_EXP_DAYS]
                 /\ last'.resp.token # NoToken
                 /\ last'.resp.token > issued
                 /\ \A e \in DOMAIN store : store[e] # NoRow
                        => store[e].token # last'.resp.token
                 /\ \A e \in DOMAIN store \ {last'.email} : store'[e] = store[e]
          /\ last'.resp.code = 400 => store' = store]_vars

C25_Witness ==
    /\ last.op = "invite" /\ last.before = "revoked" /\ last.resp.code = 200
    /\ store[last.email].status = "pending"
    /\ store[last.email].token = last.resp.token
    /\ store[last.email].token_expires_at = now + INVITE_EXP_DAYS

\* C26: a status change writes the status only: revoked stores status revoked
\* with token and token_expires_at null and the role as it was; active and
\* pending store the status and leave role, token and token_expires_at as
\* they were; a rejected or failed change writes nothing
C26_StatusOnly ==
    [][(last'.op = "status") =>
          LET e == last'.email
          IN  IF last'.resp.code # 200 THEN store' = store
              ELSE IF last'.status = "revoked"
              THEN store' = [store EXCEPT ![e].status = "revoked",
                                          ![e].token = NoToken,
                                          ![e].token_expires_at = NoExpiry]
              ELSE store' = [store EXCEPT ![e].status = last'.status]]_vars

C26_Witness ==
    /\ last.op = "status" /\ last.status = "active" /\ last.resp.code = 200
    /\ store[last.email].status = "active"
    /\ store[last.email].token # NoToken
    /\ store[last.email].token_expires_at # NoExpiry

\* C27: when a role change ends, by return or by exception, the stored role
\* has changed only together with an appended audit entry of that change,
\* and a change entry is appended only with the target role stored; an
\* exception leaves both the role and the audit trail as they were
C27_RoleAndAuditTogether ==
    [][(last'.op = "role" /\ HasRow(store, last'.email)) =>
          LET e == last'.email
              updated == store'[e].role # store[e].role
              audited == /\ Len(audit') = Len(audit) + 1
                         /\ SubSeq(audit', 1, Len(audit)) = audit
                         /\ audit'[Len(audit')].action \in {"change", "change:cognito-miss"}
                         /\ audit'[Len(audit')].email = e
                         /\ audit'[Len(audit')].db_from = store[e].role
                         /\ audit'[Len(audit')].db_to = last'.role
          IN  /\ updated => audited
              /\ audit' # audit => (audited /\ store'[e].role = last'.role)
              /\ last'.result.raised # "none" => (store' = store /\ audit' = audit)
              /\ last'.result.raised = "none" => audited]_vars

C27_Witness ==
    /\ last.op = "role" /\ last.result.raised # "none"
    /\ HasRow(store, last.email)
    /\ store[last.email].role # last.role
    /\ cognito[last.email].exists /\ last.role \in cognito[last.email].groups
    /\ audit = <<>>

\* C28: whatever the interleaving of invite, accept and status requests on
\* an e-mail, a revoked row holds no token
C28_RevokedHoldsNoToken ==
    \A e \in DOMAIN store :
        (HasRow(store, e) /\ store[e].status = "revoked") => store[e].token = NoToken

\* C29: in every state a row has a token exactly when it has a token expiry
C29_TokenAndExpiryTogether ==
    \A e \in DOMAIN store :
        HasRow(store, e) =>
            (store[e].token = NoToken <=> store[e].token_expires_at = NoExpiry)

C29_Witness ==
    /\ last.op = "accept" /\ last.resp.code = 200 /\ last.before = "pending"
    /\ \E e \in DOMAIN store :
          /\ HasRow(store, e) /\ store[e].status = "active"
          /\ store[e].token = NoToken /\ store[e].token_expires_at = NoExpiry

\* C30: an inspection of an e-mail that has a row, made right after a role
\* change or repair of it returned with no provider call failing, reports
\* in_sync; in_sync is reported exactly when the row exists and either its
\* role is among the groups of the identity or there is no identity
C30_InSyncAfterSuccess ==
    (last.op = "inspect" /\ last.answer.raised = "none") =>
        LET e == last.answer.email
        IN  /\ last.answer.in_sync <=>
                   (HasRow(store, e) /\ (~cognito[e].exists
                                          \/ store[e].role \in cognito[e].groups))
            /\ (/\ last.after.op \in {"role", "repair"}
                /\ last.after.email = e
                /\ last.after.result.raised = "none"
                /\ last.after.result.failed = "none"
                /\ HasRow(store, e)) => last.answer.in_sync

C30_Witness ==
    /\ last.op = "inspect" /\ last.answer.raised = "none"
    /\ last.after.op = "role" /\ last.after.email = last.answer.email
    /\ last.after.result.raised = "none" /\ last.after.result.failed = "none"
    /\ last.after.result.db_changed /\ last.after.result.cognito_changed
    /\ last.answer.username # "None"
    /\ last.answer.in_sync

=============================================================================
